---- MODULE Spec2Model ----
(***************************************************************************)
(* Model of the book collection manager of book_manager.py: the Book       *)
(* record, the two storage backends (ExcelStorage, SQLiteStorage) as far   *)
(* as the manager drives them, and the CRUD operations of BookManager.     *)
(*                                                                         *)
(* Text is a sequence of one-character strings, so that str.lower(),       *)
(* str.strip() and the substring test `in` are computed, not assumed.      *)
(***************************************************************************)
EXTENDS Integers, Sequences, FiniteSets, TLC

\* ------------------------------------------------------------------------
\* Bounds
\* ------------------------------------------------------------------------
\* number of manager operations called after construction
MaxOps == 2

\* ------------------------------------------------------------------------
\* Text
\* ------------------------------------------------------------------------
\* str.lower() on one character of the alphabet used here
LowerChar(c) ==
  CASE c = "A" -> "a"
    [] c = "B" -> "b"
    [] c = "L" -> "l"
    [] c = "Q" -> "q"
    [] c = "R" -> "r"
    [] c = "U" -> "u"
    [] c = "Y" -> "y"
    [] c = "É" -> "é"
    [] OTHER -> c

\* str.lower()
Lower(s) == [i \in 1..Len(s) |-> LowerChar(s[i])]

\* Python's `sub in s` on strings
Contains(sub, s) ==
  \E i \in 0..(Len(s) - Len(sub)) : SubSeq(s, i + 1, i + Len(sub)) = sub

\* str.strip(): drops leading and trailing blanks
RECURSIVE LStrip(_)
LStrip(s) == IF s # <<>> /\ Head(s) = " " THEN LStrip(Tail(s)) ELSE s

RECURSIVE RStrip(_)
RStrip(s) ==
  IF s # <<>> /\ s[Len(s)] = " " THEN RStrip(SubSeq(s, 1, Len(s) - 1)) ELSE s

Strip(s) == RStrip(LStrip(s))

\* code point of a character, for the byte-wise comparison behind NOCASE
Ord(c) ==
  CASE c = " " -> 32
    [] c = "1" -> 49
    [] c = "A" -> 65
    [] c = "B" -> 66
    [] c = "a" -> 97
    [] c = "b" -> 98
    [] c = "e" -> 101
    [] c = "g" -> 103
    [] c = "i" -> 105
    [] c = "n" -> 110
    [] c = "x" -> 120
    [] c = "y" -> 121
    [] c = "É" -> 201
    [] c = "é" -> 233
    [] OTHER -> 0

\* the case folding of SQLite's NOCASE: the 26 ASCII letters only, so that
\* "É" and "é" stay different
NoCaseChar(c) == IF c = "É" THEN c ELSE LowerChar(c)

\* SQLite's NOCASE collation: fold A-Z to a-z, then compare byte by byte;
\* a proper prefix sorts first.  Result is -1, 0 or 1.
RECURSIVE NoCaseCmp(_, _)
NoCaseCmp(s, t) ==
  IF s = <<>> /\ t = <<>> THEN 0
  ELSE IF s = <<>> THEN -1
  ELSE IF t = <<>> THEN 1
  ELSE LET a == Ord(NoCaseChar(Head(s)))
           b == Ord(NoCaseChar(Head(t)))
       IN IF a < b THEN -1
          ELSE IF a > b THEN 1
          ELSE NoCaseCmp(Tail(s), Tail(t))

\* ------------------------------------------------------------------------
\* Book
\* ------------------------------------------------------------------------
\* the dataclass Book
Book(autor, titulo, quantidade, isbn, editora, ano, genero) ==
  [autor |-> autor, titulo |-> titulo, quantidade |-> quantidade,
   isbn |-> isbn, editora |-> editora, ano |-> ano, genero |-> genero]

\* str() of a spreadsheet cell as pandas hands it to from_series: an empty
\* cell is read as NaN, and str(NaN) is "nan"
CellStr(cell) == IF cell = <<>> THEN <<"n", "a", "n">> ELSE cell

\* Book.from_series on a row of the canonical seven-column sheet; the
\* quantity cell is <<n>>, or <<>> when empty (NaN, read as 1)
from_series(row) ==
  Book(Strip(CellStr(row.autor)), Strip(CellStr(row.titulo)),
       IF row.quantidade = <<>> THEN 1 ELSE row.quantidade[1],
       Strip(CellStr(row.isbn)), Strip(CellStr(row.editora)),
       Strip(CellStr(row.ano)), Strip(CellStr(row.genero)))

\* ------------------------------------------------------------------------
\* Storage backends
\* ------------------------------------------------------------------------
\* ExcelStorage.load_books on a sheet in the layout save_books writes
\* (decorative row, header row, one row per record)
ExcelStorage_load_books(rows) == [i \in 1..Len(rows) |-> from_series(rows[i])]

\* ExcelStorage.save_books: the sheet is rewritten, one row per record in
\* the order of the list; an empty string is written as an empty cell
ExcelStorage_save_books(bs) ==
  [i \in 1..Len(bs) |-> [bs[i] EXCEPT !.quantidade = <<bs[i].quantidade>>]]

\* the unique index idx_books_titulo_nocase of SQLiteStorage._init_db
UniqueNoCase(rows) ==
  \A i, j \in 1..Len(rows) :
    i # j => NoCaseCmp(rows[i].titulo, rows[j].titulo) # 0

\* insertion of a row into a list ordered by titulo COLLATE NOCASE
RECURSIVE InsertByTitle(_, _)
InsertByTitle(r, rows) ==
  IF rows = <<>> THEN <<r>>
  ELSE IF NoCaseCmp(r.titulo, Head(rows).titulo) < 0 THEN <<r>> \o rows
  ELSE <<Head(rows)>> \o InsertByTitle(r, Tail(rows))

RECURSIVE OrderByTitle(_)
OrderByTitle(rows) ==
  IF rows = <<>> THEN <<>>
  ELSE InsertByTitle(rows[Len(rows)], OrderByTitle(SubSeq(rows, 1, Len(rows) - 1)))

\* SQLiteStorage.load_books: SELECT ... ORDER BY titulo COLLATE NOCASE
SQLiteStorage_load_books(rows) == OrderByTitle(rows)

\* save_books whose failed transaction is committed: the rows are deleted
\* and the records in front of the first violation of the index are kept
SQLiteStorage_save_books_no_rollback(rows, bs) ==
  IF UniqueNoCase(bs) THEN [store |-> bs, ok |-> TRUE]
  ELSE LET k == CHOOSE k \in 0..Len(bs) :
                  /\ UniqueNoCase(SubSeq(bs, 1, k))
                  /\ ~UniqueNoCase(SubSeq(bs, 1, k + 1))
       IN  [store |-> SubSeq(bs, 1, k), ok |-> FALSE]

\* SQLiteStorage.save_books: DELETE, then INSERT every record, in one
\* transaction; a violation of the unique index raises and the connection's
\* context manager rolls the DELETE back
SQLiteStorage_save_books(rows, bs) ==
  IF UniqueNoCase(bs) THEN [store |-> bs, ok |-> TRUE]
  ELSE [store |-> rows, ok |-> FALSE]

\* BookManager._load: self.books = self.storage.load_books()
Load(be, rows) ==
  IF be = "excel" THEN ExcelStorage_load_books(rows)
  ELSE SQLiteStorage_load_books(rows)

\* BookManager._save: self.storage.save_books(self.books)
Save(be, rows, bs) ==
  IF be = "excel" THEN [store |-> ExcelStorage_save_books(bs), ok |-> TRUE]
  ELSE SQLiteStorage_save_books(rows, bs)

\* ------------------------------------------------------------------------
\* Inputs
\* ------------------------------------------------------------------------
\* titles: two that differ in letter case only, and one that contains them
Titles == { <<"a">>, <<"A">>, <<"B", "a">> }

\* quantities and amounts passed by callers (int() accepts a sign)
Amounts == { -1, 2 }

\* author and optional fields passed to add_book and update_book;
\* quantidade is the quantity update_book is called with
Details ==
  { [autor |-> <<"x">>, quantidade |-> 2, isbn |-> <<>>, editora |-> <<>>,
     ano |-> <<>>, genero |-> <<>>],
    [autor |-> <<"y">>, quantidade |-> -1, isbn |-> <<"i">>, editora |-> <<"e">>,
     ano |-> <<"1">>, genero |-> <<"g">>] }

\* records found in the data file when the manager is constructed
InitRecords ==
  { Book(<<"x">>, <<"a">>, 1, <<>>, <<>>, <<>>, <<>>),
    Book(<<"y">>, <<"A">>, 2, <<"i">>, <<"e">>, <<"1">>, <<"g">>),
    Book(<<"x">>, <<"B", "a">>, 1, <<>>, <<>>, <<>>, <<>>) }

\* the selections of records of S, in every order
Arrangements(S) ==
  { s \in UNION { [1..k -> S] : k \in 0..Cardinality(S) } :
      \A i, j \in 1..Len(s) : i # j => s[i] # s[j] }

\* contents of the data file at construction: any sheet for the tabular
\* backend, a table that satisfies its unique index for the relational one
InitStores(be) ==
  IF be = "excel"
  THEN { ExcelStorage_save_books(s) : s \in Arrangements(InitRecords) }
  ELSE { s \in Arrangements(InitRecords) : UniqueNoCase(s) }

\* ------------------------------------------------------------------------
\* BookManager
\* ------------------------------------------------------------------------
VARIABLES
  backend,    \* self.backend
  books,      \* self.books
  store,      \* rows of the data file behind self.storage
  last,       \* the last call made, with its arguments and outcome
  ncalls,     \* number of calls made since construction
  adds,       \* per title (lower-cased): number and sum of the add_book calls
  onlyAdds,   \* no operation other than add_book has been called
  prevBooks,  \* self.books when the last call was entered
  prevStore,  \* the data file when the last call was entered
  saved,      \* the last call ran self._save()
  loaded,     \* self.books as BookManager.__init__ left it
  result,      \* the list the last call returned, if it returned one
  fs,         \* storage_config.json and the two default data files
  run,        \* the program runs so far and the outcome of the last one
  sheet,      \* the worksheet of the Excel file, a grid of cells
  table,      \* the rows of the table books, in rowid order
  got         \* the last call on a storage object and its outcome

\* the variables of a constructed BookManager
mvars ==
  <<backend, books, store, last, ncalls, adds, onlyAdds, prevBooks, prevStore,
    saved, loaded, result>>

\* the variables of the first-run configuration
cvars == <<fs, run>>

\* the variables of the storage objects used on their own
svars == <<sheet, table, got>>

vars == <<mvars, cvars, svars>>

\* a call on a storage object: operation, collection given, exception
\* raised ("" for none), collection returned
StorageCall(op, given, raised, bs) ==
  [op |-> op, given |-> given, raised |-> raised, books |-> bs]

NoStorageCall == StorageCall("", <<>>, "", <<>>)

\* the storage objects are not used on their own
StorageIdle == sheet = <<>> /\ table = <<>> /\ got = NoStorageCall

\* a call: operation, title looked up, values given, amount, outcome
Call(op, titulo, given, amount, ret) ==
  [op |-> op, titulo |-> titulo, given |-> given, amount |-> amount, ret |-> ret]

\* stands for the record arguments of a call that takes none
NoBook == Book(<<>>, <<>>, 0, <<>>, <<>>, <<>>, <<>>)

\* the lower-cased titles callers pass
Keys == { Lower(t) : t \in Titles }

\* the bookkeeping of a call: add_book calls are counted and summed per title
Record(call) ==
  /\ ncalls' = ncalls + 1
  /\ onlyAdds' = (onlyAdds /\ call.op = "add_book")
  /\ adds' = IF call.op = "add_book"
             THEN [adds EXCEPT ![Lower(call.titulo)] =
                     [n |-> @.n + 1, sum |-> @.sum + call.amount]]
             ELSE adds

\* ------------------------------------------------------------------------
\* Storage configuration
\* ------------------------------------------------------------------------
\* number of program runs
MaxRuns == 3

\* the content of storage_config.json: whether the file exists, whether it
\* parses as JSON, its "backend", whether its "path" is a string, its "path"
ConfigFile(exists, json, be, pathIsStr, path) ==
  [exists |-> exists, json |-> json, backend |-> be, pathIsStr |-> pathIsStr,
   path |-> path]

NoConfigFile == ConfigFile(FALSE, FALSE, "", FALSE, "")

\* a configuration dict, or None
Config(be, path) == [none |-> FALSE, backend |-> be, path |-> path]

None == [none |-> TRUE, backend |-> "", path |-> ""]

\* load_storage_config: None unless the file exists, parses, names one of
\* the two backends and has a string path
load_storage_config(file) ==
  IF ~file.exists THEN None
  ELSE IF ~file.json THEN None
  ELSE IF file.backend \notin {"excel", "sqlite"} \/ ~file.pathIsStr THEN None
  ELSE Config(file.backend, file.path)

\* save_storage_config: the file becomes {"backend": backend, "path": path}
save_storage_config(be, path) == ConfigFile(TRUE, TRUE, be, TRUE, path)

\* EXCEL_PATH / SQLITE_PATH
DefaultPath(be) == IF be = "excel" THEN "EXCEL_PATH" ELSE "SQLITE_PATH"

\* create_excel_file without the test for an existing file
create_excel_file_overwrite(xlsx) == "empty"

\* create_excel_file: nothing when the file exists, else an empty sheet
create_excel_file(xlsx) == IF xlsx # "absent" THEN xlsx ELSE "empty"

\* create_sqlite_file, SQLiteStorage.__init__: CREATE TABLE IF NOT EXISTS
create_sqlite_file(db) == IF db # "absent" THEN db ELSE "empty"

\* the outcome of a run: what was called, the configuration it used (None
\* when it raised), how often storage_config.json has been written, and the
\* configuration first found valid or written
Run(n, op, explicit, used, raised, writes, first) ==
  [n |-> n, op |-> op, explicit |-> explicit, used |-> used, raised |-> raised,
   writes |-> writes, first |-> first]

NoRun == Run(0, "", FALSE, None, FALSE, 0, None)

\* what the choice provider may return ("" stands for None, the default
\* when no provider is passed is "excel")
Choices == {"excel", "sqlite", "", "other"}

\* ensure_storage_config that asks and writes on every run
ensure_storage_config_result_always(files, choice) ==
  IF choice \notin {"excel", "sqlite"}
  THEN [fs |-> files, config |-> None, raised |-> TRUE]
  ELSE LET made == IF choice = "excel"
                   THEN [files EXCEPT !.xlsx = create_excel_file(@)]
                   ELSE [files EXCEPT !.db = create_sqlite_file(@)]
       IN [fs |-> [made EXCEPT
                     !.config = save_storage_config(choice, DefaultPath(choice))],
           config |-> Config(choice, DefaultPath(choice)),
           raised |-> FALSE]

\* the files and the result after ensure_storage_config(choice_provider)
\* where the provider returns choice: [fs, config, raised]
ensure_storage_config_result(files, choice) ==
  LET config == load_storage_config(files.config)
  IN IF ~config.none
     THEN [fs |-> files, config |-> config, raised |-> FALSE]
     ELSE IF choice \notin {"excel", "sqlite"}
     THEN [fs |-> files, config |-> None, raised |-> TRUE]
     ELSE LET made == IF choice = "excel"
                      THEN [files EXCEPT !.xlsx = create_excel_file(@)]
                      ELSE [files EXCEPT !.db = create_sqlite_file(@)]
          IN [fs |-> [made EXCEPT
                        !.config = save_storage_config(choice, DefaultPath(choice))],
              config |-> Config(choice, DefaultPath(choice)),
              raised |-> FALSE]

\* the files as ensure_storage_config leaves them statement by statement:
\* at entry, after create_excel_file or create_sqlite_file, and after
\* save_storage_config; at entry only when it returns the configuration it
\* found or raises
ensure_storage_config_trace(files, choice) ==
  LET config == load_storage_config(files.config)
      made == IF choice = "excel"
              THEN [files EXCEPT !.xlsx = create_excel_file(@)]
              ELSE [files EXCEPT !.db = create_sqlite_file(@)]
  IN IF ~config.none \/ choice \notin {"excel", "sqlite"}
     THEN <<files>>
     ELSE <<files, made,
            [made EXCEPT !.config = save_storage_config(choice, DefaultPath(choice))]>>

\* bookkeeping of a run
Ran(op, explicit, res) ==
  LET wrote == res.fs.config # fs.config
      valid == load_storage_config(res.fs.config)
  IN run' = Run(run.n + 1, op, explicit, res.config, res.raised,
                run.writes + (IF wrote THEN 1 ELSE 0),
                IF run.first.none THEN valid ELSE run.first)

\* a run that calls ensure_storage_config
ensure_storage_config(choice) ==
  LET res == ensure_storage_config_result(fs, choice)
  IN /\ run.n < MaxRuns
     /\ fs' = res.fs
     /\ Ran("ensure_storage_config", FALSE, res)
     /\ UNCHANGED <<mvars, svars>>

\* the files and the configuration after the backend selection of
\* BookManager.__init__(backend, storage_path, auto_configure, choice_provider)
BookManager_init_result(files, be, auto_configure, choice) ==
  LET res ==
        IF be # "" THEN [fs |-> files, config |-> Config(be, DefaultPath(be)),
                         raised |-> FALSE]
        ELSE LET config == load_storage_config(files.config)
             IN IF ~config.none
                THEN [fs |-> files, config |-> config, raised |-> FALSE]
                ELSE IF ~auto_configure
                THEN [fs |-> files, config |-> None, raised |-> TRUE]
                ELSE ensure_storage_config_result(files, choice)
  IN IF ~res.raised /\ res.config.backend = "sqlite"
        /\ res.config.path = "SQLITE_PATH"
     THEN [res EXCEPT !.fs.db = create_sqlite_file(@)]
     ELSE res

\* a run that constructs a BookManager; be = "" stands for backend=None
BookManager_init(be, auto_configure, choice) ==
  LET res == BookManager_init_result(fs, be, auto_configure, choice)
  IN /\ run.n < MaxRuns
     /\ fs' = res.fs
     /\ Ran("BookManager", be # "", res)
     /\ UNCHANGED <<mvars, svars>>

\* storage_config.json as the first run may find it: missing, not JSON, with
\* an unknown backend, with a path that is no string, or valid
InitConfigFiles ==
  { NoConfigFile,
    ConfigFile(TRUE, FALSE, "", FALSE, ""),
    ConfigFile(TRUE, TRUE, "other", TRUE, "EXCEL_PATH"),
    ConfigFile(TRUE, TRUE, "excel", FALSE, ""),
    ConfigFile(TRUE, TRUE, "excel", TRUE, "EXCEL_PATH"),
    ConfigFile(TRUE, TRUE, "sqlite", TRUE, "SQLITE_PATH") }

InitConfig ==
  /\ fs \in [config : InitConfigFiles, xlsx : {"absent", "data"},
              db : {"absent", "data"}]
  /\ run = Run(0, "", FALSE, None, FALSE, 0, load_storage_config(fs.config))
  /\ backend = "excel"
  /\ store = <<>>
  /\ books = <<>>
  /\ last = Call("__init__", <<>>, NoBook, 0, "None")
  /\ ncalls = 0
  /\ adds = [k \in Keys |-> [n |-> 0, sum |-> 0]]
  /\ onlyAdds = TRUE
  /\ prevBooks = <<>>
  /\ prevStore = <<>>
  /\ saved = FALSE
  /\ loaded = <<>>
  /\ result = <<>>
  /\ StorageIdle

NextConfig ==
  \/ \E choice \in Choices : ensure_storage_config(choice)
  \/ \E be \in {"", "excel", "sqlite"}, auto_configure \in BOOLEAN,
        choice \in Choices :
        BookManager_init(be, auto_configure, choice)

SpecConfig == InitConfig /\ [][NextConfig]_vars

\* ------------------------------------------------------------------------
\* The worksheet behind ExcelStorage, cell by cell
\* ------------------------------------------------------------------------
\* a cell of the worksheet: empty, a text or a whole number
Empty == [k |-> "empty", n |-> 0, s |-> <<>>]

Str(s) == [k |-> "str", n |-> 0, s |-> s]

Num(n) == [k |-> "num", n |-> n, s |-> <<>>]

\* the column names load_books and from_series look for
autor_ == <<"a", "u", "t", "o", "r">>

titulo_ == <<"t", "i", "t", "u", "l", "o">>

livro_ == <<"l", "i", "v", "r", "o">>

quantidade_ == <<"q", "u", "a", "n", "t", "i", "d", "a", "d", "e">>

isbn_ == <<"i", "s", "b", "n">>

editora_ == <<"e", "d", "i", "t", "o", "r", "a">>

ano_ == <<"a", "n", "o">>

genero_ == <<"g", "e", "n", "e", "r", "o">>

\* value of a decimal digit, -1 for any other character
Digit(c) ==
  CASE c = "0" -> 0 [] c = "1" -> 1 [] c = "2" -> 2 [] c = "3" -> 3
    [] c = "4" -> 4 [] c = "5" -> 5 [] c = "6" -> 6 [] c = "7" -> 7
    [] c = "8" -> 8 [] c = "9" -> 9 [] OTHER -> -1

DigitChar(d) ==
  CASE d = 0 -> "0" [] d = 1 -> "1" [] d = 2 -> "2" [] d = 3 -> "3"
    [] d = 4 -> "4" [] d = 5 -> "5" [] d = 6 -> "6" [] d = 7 -> "7"
    [] d = 8 -> "8" [] OTHER -> "9"

\* str() of a natural number and of an integer
RECURSIVE NatStr(_)
NatStr(n) == IF n < 10 THEN <<DigitChar(n)>>
             ELSE NatStr(n \div 10) \o <<DigitChar(n % 10)>>

IntStr(n) == IF n < 0 THEN <<"-">> \o NatStr(0 - n) ELSE NatStr(n)

\* int() of a text: blanks around it are dropped, a sign may lead, the rest
\* must be decimal digits; anything else raises ValueError
IsNat(s) == s # <<>> /\ \A i \in 1..Len(s) : Digit(s[i]) >= 0

RECURSIVE NatOf(_)
NatOf(s) == IF s = <<>> THEN 0
            ELSE 10 * NatOf(SubSeq(s, 1, Len(s) - 1)) + Digit(s[Len(s)])

IsInt(s) ==
  LET t == Strip(s)
  IN  \/ IsNat(t)
      \/ t # <<>> /\ Head(t) \in {"-", "+"} /\ IsNat(Tail(t))

IntOf(s) ==
  LET t == Strip(s)
  IN  IF Head(t) = "-" THEN 0 - NatOf(Tail(t))
      ELSE IF Head(t) = "+" THEN NatOf(Tail(t))
      ELSE NatOf(t)

\* str() of a cell value as pandas hands it over: NaN for an empty cell
CellText(cell) ==
  CASE cell.k = "str" -> cell.s
    [] cell.k = "num" -> IntStr(cell.n)
    [] OTHER -> <<"n", "a", "n">>

\* label pandas gives the column j (counted from 1) of the header row
ColumnLabel(cell, j) ==
  IF cell.k = "empty"
  THEN <<"U", "n", "n", "a", "m", "e", "d", ":", " ">> \o NatStr(j - 1)
  ELSE CellText(cell)

\* pd.read_excel(path, header=h): the row h (counted from 0) names the
\* columns, the rows below it are the data
read_excel(g, h) ==
  [columns |-> [j \in 1..Len(g[h + 1]) |-> ColumnLabel(g[h + 1][j], j)],
   rows |-> SubSeq(g, h + 2, Len(g))]

Range(f) == { f[i] : i \in DOMAIN f }

\* df.columns = [str(c).lower().strip() for c in df.columns]
LowerStripColumns(df) ==
  [df EXCEPT !.columns = [j \in DOMAIN df.columns |-> Strip(Lower(df.columns[j]))]]

\* the test that sends load_books to the second row for the header
HeaderMissing(df) ==
  \/ autor_ \notin Range(df.columns)
  \/ titulo_ \notin Range(df.columns) /\ livro_ \notin Range(df.columns)

\* df.rename(columns={a: b})
Rename(df, a, b) ==
  [df EXCEPT !.columns = [j \in DOMAIN df.columns |->
                            IF df.columns[j] = a THEN b ELSE df.columns[j]]]

known_cols == {autor_, titulo_, livro_, isbn_, editora_, ano_, genero_}

remaining_cols(df) == Range(df.columns) \ known_cols

\* the frames the quantity inference can produce: remaining_cols.pop()
\* takes an arbitrary element of a set
InferQuantity(df) ==
  IF remaining_cols(df) # {} /\ quantidade_ \notin Range(df.columns)
  THEN { Rename(df, q, quantidade_) : q \in remaining_cols(df) }
  ELSE { df }

\* position of the column called name, 0 when there is none
ColumnOf(df, name) ==
  IF name \in Range(df.columns)
  THEN CHOOSE j \in DOMAIN df.columns :
         /\ df.columns[j] = name
         /\ \A i \in DOMAIN df.columns : df.columns[i] = name => j <= i
  ELSE 0

\* series.get(name, ""): the cell, or the default when there is no column
Get(df, row, name) ==
  IF ColumnOf(df, name) = 0 THEN Str(<<>>) ELSE row[ColumnOf(df, name)]

\* df["quantidade"].fillna(1).astype(int) succeeds on every row
QuantityCastable(df) ==
  \/ ColumnOf(df, quantidade_) = 0
  \/ \A i \in DOMAIN df.rows :
       LET c == df.rows[i][ColumnOf(df, quantidade_)]
       IN  c.k = "str" => IsInt(c.s)

\* the quantity of a row after fillna(1).astype(int), 1 without the column
QuantityOf(df, row) ==
  IF ColumnOf(df, quantidade_) = 0 THEN 1
  ELSE LET c == row[ColumnOf(df, quantidade_)]
       IN  CASE c.k = "num" -> c.n
             [] c.k = "str" -> IntOf(c.s)
             [] OTHER -> 1

\* Book.from_series on a row of the frame
from_series_row(df, row) ==
  Book(Strip(CellText(Get(df, row, autor_))),
       Strip(CellText(Get(df, row, titulo_))),
       QuantityOf(df, row),
       Strip(CellText(Get(df, row, isbn_))),
       Strip(CellText(Get(df, row, editora_))),
       Strip(CellText(Get(df, row, ano_))),
       Strip(CellText(Get(df, row, genero_))))

\* outcome of a storage call: what it returned, or the exception it raised
Outcome(raised, bs) == [raised |-> raised, books |-> bs]

\* variant: the header is always taken from the first row
HeaderFrame_first_row(g) ==
  Rename(LowerStripColumns(read_excel(g, 0)), livro_, titulo_)

\* the frame of load_books once the header row is settled and livro renamed
HeaderFrame(g) ==
  LET first == LowerStripColumns(read_excel(g, 0))
      df == IF HeaderMissing(first) THEN LowerStripColumns(read_excel(g, 1))
            ELSE first
  IN  Rename(df, livro_, titulo_)

\* ExcelStorage.load_books on the worksheet g: every outcome it can have
ExcelStorage_load_sheet(g) ==
  { IF QuantityCastable(df)
    THEN Outcome("", [i \in DOMAIN df.rows |-> from_series_row(df, df.rows[i])])
    ELSE Outcome("ValueError", <<>>) : df \in InferQuantity(HeaderFrame(g)) }

\* a text as openpyxl writes it: the empty string leaves the cell empty
TextCell(s) == IF s = <<>> THEN Empty ELSE Str(s)

\* ExcelStorage.save_books: decorative row, header row, one row per record
ExcelStorage_save_sheet(bs) ==
  << <<Str(<<"R", "E", "L">>), Empty, Empty, Empty, Empty, Empty, Empty>>,
     <<Str(autor_), Str(titulo_), Str(quantidade_), Str(isbn_), Str(editora_),
       Str(ano_), Str(genero_)>> >>
  \o [i \in 1..Len(bs) |->
        <<TextCell(bs[i].autor), TextCell(bs[i].titulo), Num(bs[i].quantidade),
          TextCell(bs[i].isbn), TextCell(bs[i].editora), TextCell(bs[i].ano),
          TextCell(bs[i].genero)>>]

\* ------------------------------------------------------------------------
\* The storage objects used on their own
\* ------------------------------------------------------------------------
MaxBooks == 2

\* records handed to save_books: titles that differ in case only, with and
\* without letters outside ASCII, and optional fields empty or filled
StorageRecords ==
  { Book(<<"x">>, <<"a">>, 1, <<>>, <<>>, <<>>, <<>>),
    Book(<<"y">>, <<"A">>, 2, <<"i">>, <<"e">>, <<"1">>, <<"g">>),
    Book(<<"x">>, <<"B", "a">>, 1, <<"i">>, <<>>, <<>>, <<>>),
    Book(<<"y">>, <<"É", "b">>, 2, <<"i">>, <<"e">>, <<"1">>, <<"g">>),
    Book(<<"x">>, <<"é", "a">>, 1, <<"i">>, <<"e">>, <<"1">>, <<"g">>),
    Book(<<"y">>, <<"é", "b">>, 1, <<"i">>, <<"e">>, <<"1">>, <<"g">>) }

Collections == UNION { [1..k -> StorageRecords] : k \in 0..MaxBooks }

\* no manager, no configuration run
ManagerIdle ==
  /\ backend = "excel"
  /\ store = <<>>
  /\ books = <<>>
  /\ last = Call("__init__", <<>>, NoBook, 0, "None")
  /\ ncalls = 0
  /\ adds = [k \in Keys |-> [n |-> 0, sum |-> 0]]
  /\ onlyAdds = TRUE
  /\ prevBooks = <<>>
  /\ prevStore = <<>>
  /\ saved = FALSE
  /\ loaded = <<>>
  /\ result = <<>>
  /\ fs = [config |-> NoConfigFile, xlsx |-> "absent", db |-> "absent"]
  /\ run = NoRun

\* header rows of hand-made sheets
Header3 == <<Str(autor_), Str(titulo_), Str(<<"q", "t", "d">>)>>

HeaderUpper == <<Str(<<" ", "A", "u", "t", "o", "r">>), Str(<<"L", "i", "v", "r", "o">>),
                 Str(<<"Q", "t", "d", " ">>)>>

Header4 == <<Str(autor_), Str(titulo_), Str(<<"q", "t", "d">>), Str(<<"o", "b", "s">>)>>

HeaderQ == <<Str(autor_), Str(titulo_), Str(quantidade_), Str(<<"o", "b", "s">>)>>

Header2 == <<Str(autor_), Str(titulo_)>>

\* worksheets a user may have made by hand: the legacy layout (decorative
\* first row, header in the second), headers in the first row, quantity
\* columns under other names, several unrecognized columns, none at all
InitSheets ==
  { << <<Str(<<"R", "E", "L">>), Empty, Empty>>, Header3,
       <<Str(<<"x">>), Str(<<"a">>), Num(2)>>,
       <<Str(<<"y", " ">>), Str(<<"B", "a">>), Empty>> >>,
    << <<Str(<<"R", "E", "L">>), Empty, Empty>>, HeaderUpper,
       <<Str(<<"x">>), Str(<<"a">>), Empty>>,
       <<Str(<<"y">>), Str(<<"A">>), Num(0)>> >>,
    << <<Str(<<"R", "E", "L">>), Empty, Empty>>, Header3 >>,
    << HeaderUpper,
       <<Str(<<"x">>), Str(<<"a">>), Str(<<" ", "2">>)>>,
       <<Str(<<"y">>), Str(<<"A">>), Num(-1)>> >>,
    << Header4,
       <<Str(<<"x">>), Str(<<"a">>), Num(2), Num(5)>>,
       <<Str(<<"y">>), Str(<<"A">>), Num(2), Num(5)>> >>,
    << Header4,
       <<Str(<<"x">>), Str(<<"a">>), Num(2), Str(<<"n">>)>>,
       <<Str(<<"y">>), Str(<<"A">>), Empty, Empty>> >>,
    << HeaderQ,
       <<Str(<<"x">>), Str(<<"a">>), Num(2), Num(5)>>,
       <<Str(<<"y">>), Str(<<"A">>), Empty, Str(<<"n">>)>> >>,
    << Header2,
       <<Str(<<"x">>), Str(<<"a">>)>>,
       <<Str(<<"y">>), Str(<<"A">>)>> >>,
    << Header3,
       <<Str(<<"x">>), Str(<<"a">>), Str(<<"n">>)>> >>,
    << <<Str(autor_), Str(livro_)>>,
       <<Str(<<"x">>), Empty>> >> }

\* ExcelStorage.save_books(bs): the file is rewritten
ExcelStorage_save(bs) ==
  /\ sheet' = ExcelStorage_save_sheet(bs)
  /\ got' = StorageCall("save_books", bs, "", <<>>)
  /\ UNCHANGED <<mvars, cvars, table>>

\* ExcelStorage.load_books()
ExcelStorage_load ==
  /\ \E out \in ExcelStorage_load_sheet(sheet) :
       got' = StorageCall("load_books", <<>>, out.raised, out.books)
  /\ UNCHANGED <<mvars, cvars, sheet, table>>

InitSheet ==
  /\ sheet \in InitSheets
  /\ table = <<>>
  /\ got = NoStorageCall
  /\ ManagerIdle

NextSheet ==
  \/ \E bs \in Collections : ExcelStorage_save(bs)
  \/ ExcelStorage_load

SpecSheet == InitSheet /\ [][NextSheet]_vars

\* SQLiteStorage.save_books(bs)
SQLiteStorage_save(bs) ==
  LET r == SQLiteStorage_save_books(table, bs)
  IN  /\ table' = r.store
      /\ got' = StorageCall("save_books", bs,
                            IF r.ok THEN "" ELSE "IntegrityError", <<>>)
      /\ UNCHANGED <<mvars, cvars, sheet>>

\* SQLiteStorage.load_books()
SQLiteStorage_load ==
  /\ got' = StorageCall("load_books", <<>>, "", SQLiteStorage_load_books(table))
  /\ UNCHANGED <<mvars, cvars, sheet, table>>

\* SQLiteStorage.__init__ on a new file: _init_db creates an empty table
InitTable ==
  /\ table = <<>>
  /\ sheet = <<>>
  /\ got = NoStorageCall
  /\ ManagerIdle

NextTable ==
  \/ \E bs \in Collections : SQLiteStorage_save(bs)
  \/ SQLiteStorage_load

SpecTable == InitTable /\ [][NextTable]_vars

\* BookManager.__init__: pick the backend, then self._load()
Init ==
  /\ backend \in {"excel", "sqlite"}
  /\ store \in InitStores(backend)
  /\ books = Load(backend, store)
  /\ last = Call("__init__", <<>>, NoBook, 0, "None")
  /\ ncalls = 0
  /\ adds = [k \in Keys |-> [n |-> 0, sum |-> 0]]
  /\ onlyAdds = TRUE
  /\ prevBooks = books
  /\ prevStore = store
  /\ saved = FALSE
  /\ loaded = books
  /\ result = <<>>
  /\ fs = [config |-> NoConfigFile, xlsx |-> "absent", db |-> "absent"]
  /\ run = NoRun
  /\ StorageIdle

\* variant: position of the last record whose title equals titulo
FirstMatch_last(bs, titulo) ==
  IF \E i \in 1..Len(bs) : Lower(bs[i].titulo) = Lower(titulo)
  THEN CHOOSE i \in 1..Len(bs) :
         /\ Lower(bs[i].titulo) = Lower(titulo)
         /\ \A j \in (i + 1)..Len(bs) : Lower(bs[j].titulo) # Lower(titulo)
  ELSE 0

\* position of the first record whose title equals titulo case-insensitively
\* (the `for book in self.books: if book.titulo.lower() == titulo.lower()`
\* loops), 0 when there is none
FirstMatch(bs, titulo) ==
  IF \E i \in 1..Len(bs) : Lower(bs[i].titulo) = Lower(titulo)
  THEN CHOOSE i \in 1..Len(bs) :
         /\ Lower(bs[i].titulo) = Lower(titulo)
         /\ \A j \in 1..(i - 1) : Lower(bs[j].titulo) # Lower(titulo)
  ELSE 0

\* a call that ends in self._save(): the list becomes bs, the file is
\* rewritten, and the call returns ret unless the save raises
Mutate(bs, call, ret) ==
  LET sv == Save(backend, store, bs)
  IN /\ books' = bs
     /\ store' = sv.store
     /\ saved' = TRUE
     /\ last' = [call EXCEPT !.ret = IF sv.ok THEN ret ELSE "raise"]
     /\ Record(call)
     /\ prevBooks' = books
     /\ prevStore' = store
     /\ result' = <<>>
     /\ UNCHANGED <<backend, loaded, cvars, svars>>

\* a call that returns False before reaching self._save()
Refuse(bs, call) ==
  /\ books' = bs
  /\ saved' = FALSE
  /\ last' = [call EXCEPT !.ret = "False"]
  /\ Record(call)
  /\ prevBooks' = books
  /\ prevStore' = store
  /\ result' = <<>>
  /\ UNCHANGED <<backend, store, loaded, cvars, svars>>

\* add_book that puts a new Book in front of the list
add_book_list_front(bs, autor, titulo, quantidade, isbn, editora, ano, genero) ==
  LET i == FirstMatch(bs, titulo)
  IN IF i # 0
     THEN [bs EXCEPT ![i].quantidade = @ + quantidade]
     ELSE <<Book(autor, titulo, quantidade, isbn, editora, ano, genero)>> \o bs

\* add_book that compares titles without lower()
add_book_list_case_sensitive(bs, autor, titulo, quantidade, isbn, editora, ano, genero) ==
  IF \E i \in 1..Len(bs) : bs[i].titulo = titulo
  THEN LET i == CHOOSE i \in 1..Len(bs) :
                  /\ bs[i].titulo = titulo
                  /\ \A j \in 1..(i - 1) : bs[j].titulo # titulo
       IN [bs EXCEPT ![i].quantidade = @ + quantidade]
  ELSE Append(bs, Book(autor, titulo, quantidade, isbn, editora, ano, genero))

\* add_book as an upsert that overwrites the fields of the match
add_book_list_overwrite(bs, autor, titulo, quantidade, isbn, editora, ano, genero) ==
  LET i == FirstMatch(bs, titulo)
  IN IF i # 0
     THEN [bs EXCEPT ![i] = Book(autor, titulo, bs[i].quantidade + quantidade,
                                 isbn, editora, ano, genero)]
     ELSE Append(bs, Book(autor, titulo, quantidade, isbn, editora, ano, genero))

\* the list after the body of add_book: the first match gets the quantity
\* added, otherwise a new Book is appended
add_book_list(bs, autor, titulo, quantidade, isbn, editora, ano, genero) ==
  LET i == FirstMatch(bs, titulo)
  IN IF i # 0
     THEN [bs EXCEPT ![i].quantidade = @ + quantidade]
     ELSE Append(bs, Book(autor, titulo, quantidade, isbn, editora, ano, genero))

add_book(autor, titulo, quantidade, isbn, editora, ano, genero) ==
  /\ ncalls < MaxOps
  /\ Mutate(add_book_list(books, autor, titulo, quantidade, isbn, editora, ano, genero),
            Call("add_book", titulo,
                 Book(autor, titulo, quantidade, isbn, editora, ano, genero),
                 quantidade, "None"),
            "None")

\* remove_book that drops the first match only
remove_book_list_first(bs, titulo) ==
  LET i == FirstMatch(bs, titulo)
  IN IF i = 0 THEN bs ELSE SubSeq(bs, 1, i - 1) \o SubSeq(bs, i + 1, Len(bs))

\* remove_book that compares titles without lower()
remove_book_list_case_sensitive(bs, titulo) ==
  SelectSeq(bs, LAMBDA b : b.titulo # titulo)

\* the list comprehension of remove_book
remove_book_list(bs, titulo) ==
  SelectSeq(bs, LAMBDA b : Lower(b.titulo) # Lower(titulo))

\* remove_book that saves whether or not a record was removed
remove_book_always_saves(titulo) ==
  LET bs == remove_book_list(books, titulo)
      call == Call("remove_book", titulo, NoBook, 0, "True")
  IN /\ ncalls < MaxOps
     /\ Mutate(bs, call, IF Len(bs) # Len(books) THEN "True" ELSE "False")

remove_book(titulo) ==
  LET bs == remove_book_list(books, titulo)
      call == Call("remove_book", titulo, NoBook, 0, "True")
  IN /\ ncalls < MaxOps
     /\ IF Len(bs) # Len(books) THEN Mutate(bs, call, "True") ELSE Refuse(bs, call)

\* update_book without the test for a conflicting title
TitleConflict_never(bs, target, titulo) == FALSE

\* the conflict check comparing titles without lower()
TitleConflict_case_sensitive(bs, target, titulo) ==
  \E j \in 1..Len(bs) : j # target /\ bs[j].titulo = titulo

\* the conflict check without the `book is target` skip
TitleConflict_no_skip(bs, target, titulo) ==
  \E j \in 1..Len(bs) : Lower(bs[j].titulo) = Lower(titulo)

\* the second loop of update_book: some record other than the target (by
\* identity, here by position) has the new title
TitleConflict(bs, target, titulo) ==
  \E j \in 1..Len(bs) : j # target /\ Lower(bs[j].titulo) = Lower(titulo)

\* the assignments to the target's seven fields in update_book
update_book_list_keep_optional(bs, target, autor, titulo, quantidade, isbn, editora, ano, genero) ==
  [bs EXCEPT ![target] =
     Book(autor, titulo, quantidade,
          IF isbn = <<>> THEN bs[target].isbn ELSE isbn,
          IF editora = <<>> THEN bs[target].editora ELSE editora,
          IF ano = <<>> THEN bs[target].ano ELSE ano,
          IF genero = <<>> THEN bs[target].genero ELSE genero)]

update_book_list(bs, target, autor, titulo, quantidade, isbn, editora, ano, genero) ==
  [bs EXCEPT ![target] = Book(autor, titulo, quantidade, isbn, editora, ano, genero)]

update_book(original_titulo, autor, titulo, quantidade, isbn, editora, ano, genero) ==
  LET target == FirstMatch(books, original_titulo)
      call == Call("update_book", original_titulo,
                   Book(autor, titulo, quantidade, isbn, editora, ano, genero),
                   quantidade, "True")
  IN /\ ncalls < MaxOps
     /\ IF target = 0 THEN Refuse(books, call)
        ELSE IF TitleConflict(books, target, titulo) THEN Refuse(books, call)
        ELSE Mutate(update_book_list(books, target, autor, titulo, quantidade,
                                     isbn, editora, ano, genero),
                    call, "True")

\* book.quantidade += amount on the first match
increase_quantity_list(bs, i, amount) ==
  [bs EXCEPT ![i].quantidade = @ + amount]

\* increase_quantity that returns True without self._save()
increase_quantity_unsaved(titulo, amount) ==
  LET i == FirstMatch(books, titulo)
      call == Call("increase_quantity", titulo, NoBook, amount, "True")
  IN /\ ncalls < MaxOps
     /\ IF i # 0
        THEN /\ books' = increase_quantity_list(books, i, amount)
             /\ saved' = FALSE
             /\ last' = call
             /\ Record(call)
             /\ prevBooks' = books
             /\ prevStore' = store
             /\ result' = <<>>
             /\ UNCHANGED <<backend, store, loaded, cvars, svars>>
        ELSE Refuse(books, call)

increase_quantity(titulo, amount) ==
  LET i == FirstMatch(books, titulo)
      call == Call("increase_quantity", titulo, NoBook, amount, "True")
  IN /\ ncalls < MaxOps
     /\ IF i # 0 THEN Mutate(increase_quantity_list(books, i, amount), call, "True")
        ELSE Refuse(books, call)

\* Python's max(0, n)
Max0(n) == IF n > 0 THEN n ELSE 0

\* decrease_quantity without the clamp
decrease_quantity_list_unclamped(bs, i, amount) ==
  [bs EXCEPT ![i].quantidade = @ - amount]

\* book.quantidade = max(0, book.quantidade - amount) on the first match
decrease_quantity_list(bs, i, amount) ==
  [bs EXCEPT ![i].quantidade = Max0(@ - amount)]

decrease_quantity(titulo, amount) ==
  LET i == FirstMatch(books, titulo)
      call == Call("decrease_quantity", titulo, NoBook, amount, "True")
  IN /\ ncalls < MaxOps
     /\ IF i # 0 THEN Mutate(decrease_quantity_list(books, i, amount), call, "True")
        ELSE Refuse(books, call)

\* BookManager.list_books
list_books == books

\* BookManager.find_by_title: substring match, order kept
find_by_title(bs, titulo) ==
  SelectSeq(bs, LAMBDA b : Contains(Lower(titulo), Lower(b.titulo)))

\* find_by_author that compares without lower()
find_by_author_case_sensitive(bs, autor) ==
  SelectSeq(bs, LAMBDA b : Contains(autor, b.autor))

\* BookManager.find_by_author: substring match, order kept
find_by_author(bs, autor) ==
  SelectSeq(bs, LAMBDA b : Contains(Lower(autor), Lower(b.autor)))

\* a call that returns the list bs and does nothing else; text is the
\* argument it was given
Query(op, text, bs) ==
  LET call == Call(op, text, NoBook, 0, "list")
  IN  /\ ncalls < MaxOps
      /\ result' = bs
      /\ last' = call
      /\ Record(call)
      /\ saved' = FALSE
      /\ prevBooks' = books
      /\ prevStore' = store
      /\ UNCHANGED <<backend, books, store, loaded, cvars, svars>>

\* the calls of list_books, find_by_title and find_by_author
list_books_call == Query("list_books", <<>>, list_books)

find_by_title_call(titulo) ==
  Query("find_by_title", titulo, find_by_title(books, titulo))

find_by_author_call(autor) ==
  Query("find_by_author", autor, find_by_author(books, autor))

\* texts searched for in the authors: another letter case, and the empty
\* text, which every author contains
AuthorTexts == { <<"Y">>, <<>> }

Next ==
  \/ \E d \in Details, titulo \in Titles, quantidade \in Amounts :
        add_book(d.autor, titulo, quantidade, d.isbn, d.editora, d.ano, d.genero)
  \/ \E titulo \in Titles : remove_book(titulo)
  \/ \E original_titulo \in Titles, d \in Details, titulo \in Titles :
        update_book(original_titulo, d.autor, titulo, d.quantidade,
                    d.isbn, d.editora, d.ano, d.genero)
  \/ \E titulo \in Titles, amount \in Amounts : increase_quantity(titulo, amount)
  \/ \E titulo \in Titles, amount \in Amounts : decrease_quantity(titulo, amount)
  \/ list_books_call
  \/ \E titulo \in Titles : find_by_title_call(titulo)
  \/ \E autor \in AuthorTexts : find_by_author_call(autor)

Spec == Init /\ [][Next]_vars

\* a BookManager on the relational backend whose list a caller has changed
\* directly (self.books is a public attribute, and list_books returns the
\* list itself): a record was appended whose title another record holds
\* in some letter case
InitDirect ==
  /\ backend = "sqlite"
  /\ store \in InitStores("sqlite")
  /\ loaded = Load(backend, store)
  /\ \E r \in InitRecords :
       /\ FirstMatch(loaded, r.titulo) # 0
       /\ books = Append(loaded, r)
  /\ last = Call("__init__", <<>>, NoBook, 0, "None")
  /\ ncalls = 0
  /\ adds = [k \in Keys |-> [n |-> 0, sum |-> 0]]
  /\ onlyAdds = TRUE
  /\ prevBooks = books
  /\ prevStore = store
  /\ saved = FALSE
  /\ result = <<>>
  /\ fs = [config |-> NoConfigFile, xlsx |-> "absent", db |-> "absent"]
  /\ run = NoRun
  /\ StorageIdle

SpecDirect == InitDirect /\ [][Next]_vars

\* ------------------------------------------------------------------------
\* Vocabulary of the properties
\* ------------------------------------------------------------------------
\* the last call made
Last == last

\* some call has been made
Called == ncalls > 0

\* two titles are equal up to letter case
SameTitle(s, t) == Lower(s) = Lower(t)

\* positions of the records of bs whose title equals t up to letter case
Matches(bs, t) == { i \in 1..Len(bs) : SameTitle(bs[i].titulo, t) }

\* the smallest element of a non-empty set of positions
Least(S) == CHOOSE i \in S : \A j \in S : i <= j

\* the last call returned (it did not raise)
Returned == Called /\ Last.ret # "raise"

\* ------------------------------------------------------------------------
\* C1
\* ------------------------------------------------------------------------
\* C1: when only add_book has been called since construction, then for every
\* title that add_book was called with and that was not in the collection at
\* construction, list_books holds exactly one record with that title (up to
\* letter case) and its quantity is the sum of the quantities of all the
\* add_book calls made with that title.
C1_AddAccumulates ==
  onlyAdds
  => \A t \in Titles :
       (adds[Lower(t)].n > 0 /\ Matches(loaded, t) = {})
       => /\ Cardinality(Matches(list_books, t)) = 1
          /\ list_books[Least(Matches(list_books, t))].quantidade
               = adds[Lower(t)].sum

\* two add_book calls with titles that differ in case only have produced one
\* record holding the sum
C1_Witness ==
  /\ onlyAdds
  /\ adds[<<"a">>] = [n |-> 2, sum |-> 4]
  /\ Last.op = "add_book" /\ Last.titulo = <<"A">>
  /\ loaded = <<>>
  /\ Len(books) = 1
  /\ books[1].titulo = <<"a">>
  /\ books[1].quantidade = 4

\* ------------------------------------------------------------------------
\* C2
\* ------------------------------------------------------------------------
\* C2: when add_book is called with a title that equals the title of an
\* existing record up to letter case, only the quantity of that record (the
\* first such record) changes, by the given quantity: its author, title with
\* its letter case, ISBN, publisher, year and genre stay, the collection
\* keeps its length and every other record stays as it was.
C2_AddFrame ==
  (Called /\ Last.op = "add_book" /\ Matches(prevBooks, Last.titulo) # {})
  => LET i == Least(Matches(prevBooks, Last.titulo))
     IN /\ Len(books) = Len(prevBooks)
        /\ \A j \in 1..Len(books) : j # i => books[j] = prevBooks[j]
        /\ books[i].quantidade = prevBooks[i].quantidade + Last.amount
        /\ books[i].autor = prevBooks[i].autor
        /\ books[i].titulo = prevBooks[i].titulo
        /\ books[i].isbn = prevBooks[i].isbn
        /\ books[i].editora = prevBooks[i].editora
        /\ books[i].ano = prevBooks[i].ano
        /\ books[i].genero = prevBooks[i].genero

\* add_book was called with another spelling, author and optional fields
\* than the record it matched, among several records
C2_Witness ==
  /\ Called /\ Last.op = "add_book"
  /\ Matches(prevBooks, Last.titulo) # {}
  /\ Len(prevBooks) >= 2
  /\ LET i == Least(Matches(prevBooks, Last.titulo))
     IN /\ prevBooks[i].titulo # Last.given.titulo
        /\ prevBooks[i].autor # Last.given.autor
        /\ prevBooks[i].isbn # Last.given.isbn
        /\ books[i].quantidade # prevBooks[i].quantidade

\* ------------------------------------------------------------------------
\* C3
\* ------------------------------------------------------------------------
\* the records the data file holds, read cell by cell
StoreRecords ==
  IF backend = "excel"
  THEN [i \in 1..Len(store) |->
          [store[i] EXCEPT !.quantidade =
             IF store[i].quantidade = <<>> THEN 1 ELSE store[i].quantidade[1]]]
  ELSE store

\* C3: every mutating operation (add_book, and remove_book, update_book,
\* increase_quantity, decrease_quantity when they return true) has run a full
\* save when it returns, and the data file then holds exactly the records of
\* the in-memory collection, in its order; an operation that returns false
\* has not touched the file; so whenever an operation has returned, the file
\* holds the in-memory collection, as the last save wrote it or as the
\* construction read it.
C3_SaveAfterMutation ==
  Returned =>
    /\ (Last.op = "add_book" \/ Last.ret = "True")
         => (saved /\ StoreRecords = books)
    /\ Last.ret = "False" => (~saved /\ store = prevStore)
    /\ (StoreRecords = books \/ books = Load(backend, store))

\* a second call, an increase_quantity, has changed the collection, saved
\* and returned true
C3_Witness ==
  /\ Returned
  /\ Last.op = "increase_quantity"
  /\ Last.ret = "True"
  /\ books # prevBooks
  /\ store # prevStore
  /\ ncalls = 2

\* ------------------------------------------------------------------------
\* C4
\* ------------------------------------------------------------------------
\* bs without the records at the positions in S, order kept
RECURSIVE Without(_, _)
Without(bs, S) ==
  IF bs = <<>> THEN <<>>
  ELSE Without(SubSeq(bs, 1, Len(bs) - 1), S)
       \o (IF Len(bs) \in S THEN <<>> ELSE <<bs[Len(bs)]>>)

\* C4: remove_book(title) removes every record whose title equals the given
\* title up to letter case, keeps all the other records in their relative
\* order, and returns true exactly when the size of the collection changed.
C4_RemoveAll ==
  (Called /\ Last.op = "remove_book")
  => /\ Matches(books, Last.titulo) = {}
     /\ books = Without(prevBooks, Matches(prevBooks, Last.titulo))
     /\ (Last.ret = "True") = (Len(books) # Len(prevBooks))
     /\ Last.ret \in {"True", "False"}

\* remove_book took two records out from around one that stays
C4_Witness ==
  /\ Called /\ Last.op = "remove_book" /\ Last.ret = "True"
  /\ Matches(prevBooks, Last.titulo) = {1, 3}
  /\ Len(prevBooks) = 3
  /\ books = <<prevBooks[2]>>

\* ------------------------------------------------------------------------
\* C5
\* ------------------------------------------------------------------------
\* C5 as stated: after remove_book(title) of a title that was present,
\* find_by_title(title) returns the empty sequence.
C5_FindEmptyAfterRemove ==
  (Called /\ Last.op = "remove_book" /\ Last.ret = "True")
  => find_by_title(books, Last.titulo) = <<>>

\* C5 amended: after remove_book(title) of a title that was present,
\* find_by_title(title) returns no record whose title equals the given title
\* up to letter case: it returns exactly the records, left untouched and in
\* order, whose title contains the given title as a proper substring, and
\* the empty sequence when there is none.
C5_FindAfterRemove ==
  (Called /\ Last.op = "remove_book" /\ Last.ret = "True")
  => LET found == find_by_title(books, Last.titulo)
         longer == { i \in 1..Len(prevBooks) :
                       /\ ~SameTitle(prevBooks[i].titulo, Last.titulo)
                       /\ Contains(Lower(Last.titulo), Lower(prevBooks[i].titulo)) }
     IN /\ \A i \in 1..Len(found) : ~SameTitle(found[i].titulo, Last.titulo)
        /\ found = Without(prevBooks, (1..Len(prevBooks)) \ longer)
        /\ longer = {} => found = <<>>

\* remove_book took one record out from between two that stay in order
C4_WitnessOrder ==
  /\ Called /\ Last.op = "remove_book" /\ Last.ret = "True"
  /\ Len(prevBooks) = 3
  /\ books = <<prevBooks[1], prevBooks[3]>>
  /\ books[1] # books[2]

\* a title was removed while a longer title that contains it stays
C5_Witness ==
  /\ Called /\ Last.op = "remove_book" /\ Last.ret = "True"
  /\ Last.titulo = <<"A">>
  /\ Len(find_by_title(books, Last.titulo)) = 1
  /\ find_by_title(books, Last.titulo)[1].titulo = <<"B", "a">>

\* ------------------------------------------------------------------------
\* C6
\* ------------------------------------------------------------------------
\* the record update_book works on: the first whose title equals the
\* original title up to letter case (0 when there is none)
Target == IF Matches(prevBooks, Last.titulo) = {} THEN 0
          ELSE Least(Matches(prevBooks, Last.titulo))

\* some record other than the target has the new title up to letter case
OtherHolds(newTitle) == Matches(prevBooks, newTitle) \ {Target} # {}

\* C6: update_book returns false when the new title equals, up to letter
\* case, the title of a record other than the target; then no field of any
\* record has changed and nothing has been saved.
C6_UpdateConflict ==
  (Called /\ Last.op = "update_book" /\ Target # 0
     /\ OtherHolds(Last.given.titulo))
  => /\ Last.ret = "False"
     /\ books = prevBooks
     /\ store = prevStore
     /\ ~saved

\* update_book was asked to give a record the title of another record, in
\* another spelling
C6_Witness ==
  /\ Called /\ Last.op = "update_book" /\ Target # 0
  /\ OtherHolds(Last.given.titulo)
  /\ ~SameTitle(Last.titulo, Last.given.titulo)
  /\ \A i \in 1..Len(prevBooks) : prevBooks[i].titulo # Last.given.titulo
  /\ Last.ret = "False"

\* ------------------------------------------------------------------------
\* C7
\* ------------------------------------------------------------------------
\* C7 as stated: update_book returns true when the new title is the target
\* record's own title, up to letter case.
C7_RenameToSelf ==
  (Called /\ Last.op = "update_book" /\ Target # 0
     /\ SameTitle(Last.given.titulo, prevBooks[Target].titulo))
  => Last.ret = "True"

\* C7 amended: update_book returns true when the new title is the target
\* record's own title, up to letter case, and no other record of the
\* collection has that title up to letter case (the conflict check skips the
\* target by identity, not the other records that share its title).
C7_RenameToSelfUnique ==
  (Called /\ Last.op = "update_book" /\ Target # 0
     /\ SameTitle(Last.given.titulo, prevBooks[Target].titulo)
     /\ ~OtherHolds(Last.given.titulo))
  => /\ Last.ret = "True"
     /\ books[Target] = Last.given
     /\ Len(books) = Len(prevBooks)

\* a record among others was renamed to its own title in another letter case
C7_Witness ==
  /\ Called /\ Last.op = "update_book" /\ Target # 0
  /\ SameTitle(Last.given.titulo, prevBooks[Target].titulo)
  /\ Last.given.titulo # prevBooks[Target].titulo
  /\ Len(prevBooks) >= 2
  /\ Last.ret = "True"
  /\ books[Target].titulo = Last.given.titulo

\* ------------------------------------------------------------------------
\* C8
\* ------------------------------------------------------------------------
\* C8: when the requested title matches no record, remove_book, update_book,
\* increase_quantity and decrease_quantity return false without raising,
\* leave the in-memory collection unchanged and do not write to storage.
C8_NotFound ==
  (Called
     /\ Last.op \in {"remove_book", "update_book", "increase_quantity",
                     "decrease_quantity"}
     /\ Matches(prevBooks, Last.titulo) = {})
  => /\ Last.ret = "False"
     /\ books = prevBooks
     /\ store = prevStore
     /\ ~saved

\* an operation looked for a title missing from a collection that is not
\* empty
C8_Witness ==
  /\ Called /\ Last.op = "decrease_quantity"
  /\ Matches(prevBooks, Last.titulo) = {}
  /\ prevBooks # <<>>
  /\ Last.ret = "False"

\* ------------------------------------------------------------------------
\* C9
\* ------------------------------------------------------------------------
\* C9: decrease_quantity never produces a negative quantity: at each call
\* that finds the title, the record's quantity becomes
\* max(0, quantity - amount), which is >= 0.
C9_DecreaseClamps ==
  (Called /\ Last.op = "decrease_quantity" /\ Target # 0)
  => LET was == prevBooks[Target].quantidade
         now == books[Target].quantidade
     IN /\ Last.ret = "True"
        /\ now >= 0
        /\ was - Last.amount >= 0 => now = was - Last.amount
        /\ was - Last.amount < 0 => now = 0

\* a decrease by more than the record held has left it at zero
C9_Witness ==
  /\ Called /\ Last.op = "decrease_quantity" /\ Target # 0
  /\ prevBooks[Target].quantidade = 1
  /\ Last.amount = 2
  /\ books[Target].quantidade = 0

\* ------------------------------------------------------------------------
\* C10
\* ------------------------------------------------------------------------
\* C10: after any sequence of add_book, update_book, increase_quantity and
\* decrease_quantity calls with integer arguments, every record's quantity
\* is a non-negative integer.
C10_QuantityNonNegative ==
  \A i \in 1..Len(books) : books[i].quantidade >= 0

\* ------------------------------------------------------------------------
\* C11
\* ------------------------------------------------------------------------
\* C11: the storage configuration is written at most once, by the first run
\* that finds no valid one; from then on the file stays as it is, and every
\* run of ensure_storage_config or of BookManager with no explicit backend
\* reads it and uses the same backend kind and path.
C11_ConfigWrittenOnce ==
  /\ run.writes <= 1
  /\ ~run.first.none
       => /\ load_storage_config(fs.config) = run.first
          /\ (run.n > 0 /\ ~run.explicit)
               => (~run.raised /\ run.used = run.first)
  /\ (run.n > 0 /\ ~run.raised /\ ~run.explicit) => ~run.first.none

\* a later run, asked for the other backend, used the configuration that
\* the first run wrote
C11_Witness ==
  /\ run.n = 3
  /\ run.writes = 1
  /\ run.first = Config("sqlite", "SQLITE_PATH")
  /\ run.used = run.first
  /\ ~run.explicit
  /\ fs.xlsx = "absent"

\* ------------------------------------------------------------------------
\* Vocabulary of the storage claims
\* ------------------------------------------------------------------------
\* comparison of two texts character by character: -1, 0 or 1
RECURSIVE TextCmp(_, _)
TextCmp(s, t) ==
  IF s = <<>> /\ t = <<>> THEN 0
  ELSE IF s = <<>> THEN -1
  ELSE IF t = <<>> THEN 1
  ELSE IF Ord(Head(s)) < Ord(Head(t)) THEN -1
  ELSE IF Ord(Head(s)) > Ord(Head(t)) THEN 1
  ELSE TextCmp(Tail(s), Tail(t))

\* s comes no later than t when letter case is ignored
CaseInsensitiveLeq(s, t) == TextCmp(Lower(s), Lower(t)) <= 0

\* the two sequences hold the same records, each as often
SameRecords(a, b) ==
  /\ Len(a) = Len(b)
  /\ \A r \in Range(a) \cup Range(b) :
       Cardinality({ i \in DOMAIN a : a[i] = r })
         = Cardinality({ i \in DOMAIN b : b[i] = r })

\* two records of bs have case-insensitively equal titles
HasDuplicateTitles(bs) ==
  \E i, j \in DOMAIN bs : i # j /\ SameTitle(bs[i].titulo, bs[j].titulo)

\* ------------------------------------------------------------------------
\* C12
\* ------------------------------------------------------------------------
\* C12: on the relational backend, save_books of a collection that holds two
\* records with case-insensitively equal titles raises the constraint
\* violation (IntegrityError) to the caller.
C12_DuplicateSaveFails ==
  (got.op = "save_books" /\ HasDuplicateTitles(got.given))
  => got.raised = "IntegrityError"

\* ------------------------------------------------------------------------
\* C13
\* ------------------------------------------------------------------------
\* C13: on the relational backend, load_books after save_books returns
\* exactly the records of the table, ordered by title in case-insensitive
\* ascending order.
C13_LoadOrdered ==
  got.op = "load_books"
  => /\ SameRecords(got.books, table)
     /\ \A i, j \in DOMAIN got.books :
          i < j => CaseInsensitiveLeq(got.books[i].titulo, got.books[j].titulo)

\* ------------------------------------------------------------------------
\* C14
\* ------------------------------------------------------------------------
\* C14: on the tabular backend, load_books of a file that save_books wrote
\* for a collection returns that collection: the same records with the same
\* seven fields, in the same order.
C14_RoundTrip ==
  got.op = "load_books"
  => \A bs \in Collections :
       sheet = ExcelStorage_save_sheet(bs)
       => (got.raised = "" /\ got.books = bs)

\* ------------------------------------------------------------------------
\* C15
\* ------------------------------------------------------------------------
\* the columns of the frame that load_books does not recognize
Unrecognized(df) == remaining_cols(df) \ {quantidade_}

\* C15: when more than one unrecognized column remains (and no column is
\* called quantidade), load_books renames none of them and every record it
\* returns has quantity 1.
C15_NoRenameOfSeveral ==
  (/\ got.op = "load_books"
   /\ Cardinality(Unrecognized(HeaderFrame(sheet))) > 1
   /\ quantidade_ \notin Range(HeaderFrame(sheet).columns))
  => /\ got.raised = ""
     /\ \A i \in DOMAIN got.books : got.books[i].quantidade = 1

\* ------------------------------------------------------------------------
\* C16
\* ------------------------------------------------------------------------
\* a worksheet in the legacy layout: a decorative first row, the header in
\* the second row naming autor, titulo (or livro) and one quantity column
\* under some other name, then rows of author, title and a quantity cell
\* that holds a whole number or nothing
Legacy(g) ==
  /\ Len(g) >= 2
  /\ \A r \in DOMAIN g : Len(g[r]) = 3
  /\ g[1][1].k = "str" /\ g[1][2] = Empty /\ g[1][3] = Empty
  /\ Strip(Lower(g[1][1].s)) \notin {autor_, titulo_, livro_}
  /\ \A j \in 1..3 : g[2][j].k = "str"
  /\ Strip(Lower(g[2][1].s)) = autor_
  /\ Strip(Lower(g[2][2].s)) \in {titulo_, livro_}
  /\ Strip(Lower(g[2][3].s)) \notin known_cols \cup {quantidade_}
  /\ \A r \in 3..Len(g) :
       g[r][1].k = "str" /\ g[r][2].k = "str" /\ g[r][3].k \in {"num", "empty"}

\* C16: load_books of a legacy worksheet returns one record per data row,
\* with the author and title of the row, the quantity of the row's quantity
\* cell, and quantity 1 where that cell is empty.
C16_LegacyLoad ==
  (got.op = "load_books" /\ Legacy(sheet))
  => /\ got.raised = ""
     /\ Len(got.books) = Len(sheet) - 2
     /\ \A i \in DOMAIN got.books :
          LET row == sheet[i + 2]
          IN  /\ got.books[i].autor = Strip(row[1].s)
              /\ got.books[i].titulo = Strip(row[2].s)
              /\ got.books[i].quantidade
                   = (IF row[3].k = "num" THEN row[3].n ELSE 1)

\* a legacy worksheet with two data rows was loaded: quantity 2 from the
\* column qtd, and 1 for the row whose quantity cell is empty
C16_Witness ==
  /\ got.op = "load_books" /\ Legacy(sheet)
  /\ Len(got.books) = 2
  /\ got.books[1].quantidade = 2
  /\ got.books[2].quantidade = 1
  /\ sheet[4][3] = Empty

\* ------------------------------------------------------------------------
\* C17
\* ------------------------------------------------------------------------
\* the titles of bs ascend under the collation of the read query
AscendingNoCase(bs) ==
  \A i, j \in DOMAIN bs : i < j => NoCaseCmp(bs[i].titulo, bs[j].titulo) <= 0

\* C17 as stated: in every reachable state the collection of the relational
\* backend is in case-insensitive ascending title order, and on the tabular
\* backend a record added under a new title is the last one.
C17_Ordered ==
  /\ backend = "sqlite"
       => \A i, j \in DOMAIN books :
            i < j => CaseInsensitiveLeq(books[i].titulo, books[j].titulo)
  /\ (backend = "excel" /\ Called /\ Last.op = "add_book" /\ Target = 0)
       => books[Len(books)].titulo = Last.given.titulo

\* C17, amended: at construction the collection is in the order of the data
\* file: row order on the tabular backend, the order of the read query
\* (titulo COLLATE NOCASE, ascending) on the relational one.  After that, on
\* both backends, the operations keep the positions: add_book of a new
\* title appends at the end, add_book of a known title, update_book,
\* increase_quantity and decrease_quantity leave every record where it was,
\* and remove_book keeps the order of the records that stay.  The relational
\* collection is therefore not sorted after such an add_book or a rename.
C17_OrderKept ==
  /\ ~Called
       => /\ books = loaded
          /\ backend = "sqlite" => AscendingNoCase(books)
          /\ backend = "excel"
               => /\ Len(books) = Len(store)
                  /\ \A i \in DOMAIN books : books[i].titulo = store[i].titulo
  /\ (Called /\ Last.op = "add_book" /\ Target = 0)
       => /\ Len(books) = Len(prevBooks) + 1
          /\ SubSeq(books, 1, Len(prevBooks)) = prevBooks
          /\ books[Len(books)].titulo = Last.given.titulo
  /\ (Called /\ Last.op # "remove_book" /\ ~(Last.op = "add_book" /\ Target = 0))
       => /\ Len(books) = Len(prevBooks)
          /\ \A i \in DOMAIN books : i # Target => books[i] = prevBooks[i]
  /\ (Called /\ Last.op = "remove_book")
       => books = Without(prevBooks, Matches(prevBooks, Last.titulo))

\* on the relational backend add_book has appended a title that sorts
\* before the one in front of it
C17_Witness ==
  /\ backend = "sqlite"
  /\ Called /\ Last.op = "add_book" /\ Target = 0
  /\ Len(books) >= 2
  /\ NoCaseCmp(books[Len(books) - 1].titulo, books[Len(books)].titulo) > 0

\* ------------------------------------------------------------------------
\* C18
\* ------------------------------------------------------------------------
\* C18: when several records have the title looked up (letter case
\* ignored), add_book, increase_quantity, decrease_quantity and update_book
\* change the first of them only: it gets the new quantity or the new
\* fields, every other record stays as it was.
C18_FirstMatchOnly ==
  (/\ Called
   /\ Last.op \in {"add_book", "increase_quantity", "decrease_quantity", "update_book"}
   /\ Cardinality(Matches(prevBooks, Last.titulo)) > 1)
  => LET i == Least(Matches(prevBooks, Last.titulo))
     IN  /\ Len(books) = Len(prevBooks)
         /\ \A j \in DOMAIN books : j # i => books[j] = prevBooks[j]
         /\ Last.op \in {"add_book", "increase_quantity"}
              => books[i] = [prevBooks[i] EXCEPT !.quantidade = @ + Last.amount]
         /\ Last.op = "decrease_quantity"
              => books[i] = [prevBooks[i] EXCEPT
                               !.quantidade = IF @ - Last.amount > 0
                                              THEN @ - Last.amount ELSE 0]
         /\ (Last.op = "update_book" /\ Last.ret = "True") => books[i] = Last.given
         /\ (Last.op = "update_book" /\ Last.ret = "False") => books[i] = prevBooks[i]

\* of two records titled a and A, update_book has renamed the first and
\* left the second
C18_Witness ==
  /\ Called /\ Last.op = "update_book" /\ Last.ret = "True"
  /\ Cardinality(Matches(prevBooks, Last.titulo)) = 2
  /\ books[1] # prevBooks[1]
  /\ ~SameTitle(books[1].titulo, Last.titulo)
  /\ books[2] = prevBooks[2]
  /\ SameTitle(books[2].titulo, Last.titulo)

\* increase_quantity has changed the first of two such records
C18_WitnessIncrease ==
  /\ Called /\ Last.op = "increase_quantity"
  /\ Cardinality(Matches(prevBooks, Last.titulo)) = 2
  /\ books[Least(Matches(prevBooks, Last.titulo))].quantidade
       # prevBooks[Least(Matches(prevBooks, Last.titulo))].quantidade

\* ------------------------------------------------------------------------
\* C19
\* ------------------------------------------------------------------------
\* C19: after update_book has returned True, the target record holds
\* exactly the seven values given (empty strings for the optional fields
\* not given), at the position it had; every other record and the length of
\* the collection are unchanged; and the collection has been saved.
C19_UpdateOverwrites ==
  (Called /\ Last.op = "update_book" /\ Last.ret = "True")
  => /\ Target # 0
     /\ Len(books) = Len(prevBooks)
     /\ books[Target] = Last.given
     /\ \A j \in DOMAIN books : j # Target => books[j] = prevBooks[j]
     /\ saved
     /\ StoreRecords = books

\* update_book has replaced every field of the second of two records,
\* whose optional fields were filled, by other values with the optional
\* fields empty
C19_Witness ==
  /\ Called /\ Last.op = "update_book" /\ Last.ret = "True"
  /\ Len(books) = 2 /\ Target = 2
  /\ prevBooks[2].isbn # <<>> /\ books[2].isbn = <<>>
  /\ prevBooks[2].genero # <<>> /\ books[2].genero = <<>>
  /\ books[2].autor # prevBooks[2].autor
  /\ books[2].titulo # prevBooks[2].titulo
  /\ books[2].quantidade # prevBooks[2].quantidade

\* ------------------------------------------------------------------------
\* C20
\* ------------------------------------------------------------------------
\* text occurs in s when letter case is ignored
OccursIn(text, s) ==
  \E pre, post \in 0..Len(s) :
    /\ pre + Len(text) + post = Len(s)
    /\ \A k \in 1..Len(text) : LowerChar(s[pre + k]) = LowerChar(text[k])

\* C20: find_by_author and find_by_title return exactly the records whose
\* author (title) contains the given text, letter case ignored, in the
\* order of the collection; list_books returns the collection; and none of
\* the three changes the collection or writes the data file.
C20_FindExact ==
  (Called /\ Last.op \in {"find_by_author", "find_by_title", "list_books"})
  => /\ Last.op = "find_by_author"
          => result = Without(books, { i \in DOMAIN books :
                                        ~OccursIn(Last.titulo, books[i].autor) })
     /\ Last.op = "find_by_title"
          => result = Without(books, { i \in DOMAIN books :
                                        ~OccursIn(Last.titulo, books[i].titulo) })
     /\ Last.op = "list_books" => result = books
     /\ books = prevBooks
     /\ store = prevStore
     /\ ~saved

\* find_by_author, given Y, has returned two of three records, those of the
\* author y
C20_Witness ==
  /\ Called /\ Last.op = "find_by_author" /\ Last.titulo = <<"Y">>
  /\ Len(books) = 3
  /\ Len(result) = 2
  /\ result[1].autor = <<"y">> /\ result[2].autor = <<"y">>

\* find_by_title, given Ba, has returned the one record whose title holds it
C20_WitnessTitle ==
  /\ Called /\ Last.op = "find_by_title" /\ Last.titulo = <<"B", "a">>
  /\ Len(books) = 3
  /\ result = <<books[2]>>

\* ------------------------------------------------------------------------
\* C21
\* ------------------------------------------------------------------------
\* C21: when no two records of the collection the manager was constructed
\* with have case-insensitively equal titles, then after any sequence of
\* manager calls no two records have; on the relational backend the titles
\* are then also distinct under the unique index, and no call has ended in
\* the exception of a failed save.
C21_UniquePreserved ==
  ~HasDuplicateTitles(loaded)
  => /\ ~HasDuplicateTitles(books)
     /\ backend = "sqlite" => UniqueNoCase(books)
     /\ Called => Last.ret # "raise"
     /\ \A s, t \in Titles \cup { r.titulo : r \in StorageRecords } :
          NoCaseCmp(s, t) = 0 => SameTitle(s, t)

\* on the relational backend, after an add_book of a new title, an
\* update_book that would have renamed a record to the title of another,
\* in another letter case, was refused
C21_Witness ==
  /\ backend = "sqlite"
  /\ ~HasDuplicateTitles(loaded)
  /\ ncalls = 2
  /\ Last.op = "update_book" /\ Last.ret = "False"
  /\ Target # 0
  /\ OtherHolds(Last.given.titulo)
  /\ \A i \in DOMAIN books : books[i].titulo # Last.given.titulo
  /\ Len(books) = Len(loaded) + 1

\* on the relational backend add_book of a title held in another letter
\* case has added to the record instead of appending one
C21_WitnessAdd ==
  /\ backend = "sqlite"
  /\ Last.op = "add_book" /\ Target # 0
  /\ prevBooks[Target].titulo # Last.given.titulo
  /\ Len(books) = 2

\* ------------------------------------------------------------------------
\* C22
\* ------------------------------------------------------------------------
\* C22: when the save of a manager operation on the relational backend
\* fails on the unique index, the table holds exactly the rows it held
\* before the call (the delete was rolled back, no record was inserted),
\* while the collection in memory holds the change the operation made.
C22_AllOrNothing ==
  (Called /\ Last.ret = "raise")
  => /\ backend = "sqlite"
     /\ saved
     /\ store = prevStore
     /\ UniqueNoCase(store)
     /\ HasDuplicateTitles(books)
     /\ store # books
     /\ (Last.op = "add_book" /\ Target = 0)
          => books = Append(prevBooks, Last.given)
     /\ (Last.op = "add_book" /\ Target # 0)
          => books[Target].quantidade = prevBooks[Target].quantidade + Last.amount
     /\ Last.op = "increase_quantity"
          => books[Target].quantidade = prevBooks[Target].quantidade + Last.amount
     /\ Last.op = "decrease_quantity"
          => books[Target].quantidade
               = (IF prevBooks[Target].quantidade - Last.amount > 0
                  THEN prevBooks[Target].quantidade - Last.amount ELSE 0)
     /\ Last.op = "update_book" => books[Target] = Last.given
     /\ Last.op = "remove_book"
          => books = Without(prevBooks, Matches(prevBooks, Last.titulo))

\* an increase_quantity has changed a record in memory, its save has
\* failed, and the table holds the two rows it held before
C22_Witness ==
  /\ Called /\ Last.op = "increase_quantity" /\ Last.ret = "raise"
  /\ Len(store) = 2 /\ store = prevStore
  /\ books[Target].quantidade # prevBooks[Target].quantidade
  /\ books[Target].quantidade # store[Target].quantidade

\* ------------------------------------------------------------------------
\* C23
\* ------------------------------------------------------------------------
\* the data file of the backend be exists
DataExists(files, be) ==
  IF be = "excel" THEN files.xlsx # "absent" ELSE files.db # "absent"

\* whatever the provider returns, a call of ensure_storage_config on the
\* present files writes the configuration only once the data file exists,
\* changes no data file that exists, and, when there is no valid
\* configuration and the provider returns neither excel nor sqlite, raises
\* and leaves the files as they are
C23_CallInOrder ==
  \A choice \in Choices :
    LET tr == ensure_storage_config_trace(fs, choice)
        res == ensure_storage_config_result(fs, choice)
    IN  /\ tr[Len(tr)] = res.fs
        /\ \A k \in DOMAIN tr :
             /\ tr[k].config # fs.config => DataExists(tr[k], choice)
             /\ fs.xlsx # "absent" => tr[k].xlsx = fs.xlsx
             /\ fs.db # "absent" => tr[k].db = fs.db
        /\ (load_storage_config(fs.config).none /\ choice \notin {"excel", "sqlite"})
             => (res.raised /\ res.fs = fs)

\* a run keeps every data file that exists, writes a configuration only
\* with the data file of its backend in place, and writes nothing when
\* ensure_storage_config raises
C23_RunKeepsData ==
  /\ fs.xlsx # "absent" => fs'.xlsx = fs.xlsx
  /\ fs.db # "absent" => fs'.db = fs.db
  /\ fs'.config # fs.config
       => /\ ~load_storage_config(fs'.config).none
          /\ DataExists(fs', load_storage_config(fs'.config).backend)
  /\ (run'.n = run.n + 1 /\ run'.op = "ensure_storage_config" /\ run'.raised)
       => fs' = fs

\* C23: ensure_storage_config creates the data file before it writes the
\* configuration, never overwrites or empties a data file that exists, and
\* when the choice provider returns anything but excel or sqlite it raises
\* having written neither a configuration nor a data file.
C23_NoDataLoss == [] C23_CallInOrder /\ [][C23_RunKeepsData]_vars

\* the first run, ensure_storage_config, has written the configuration for
\* the tabular backend and left the data file that was there as it was
C23_Witness ==
  /\ run.n = 1 /\ run.op = "ensure_storage_config"
  /\ run.writes = 1
  /\ run.first = Config("excel", "EXCEL_PATH")
  /\ fs.xlsx = "data"
  /\ fs.db = "absent"

\* ensure_storage_config has raised and there is still neither a
\* configuration nor a data file
C23_WitnessRaise ==
  /\ run.op = "ensure_storage_config" /\ run.raised
  /\ fs = [config |-> NoConfigFile, xlsx |-> "absent", db |-> "absent"]

\* ensure_storage_config has created the missing database and written the
\* configuration for it
C23_WitnessCreate ==
  /\ run.op = "ensure_storage_config" /\ run.writes = 1
  /\ run.first = Config("sqlite", "SQLITE_PATH")
  /\ fs.db = "empty"

====
